---- MODULE Spec2Model ----
(***************************************************************************)
(* Model of the AutoReader streaming text-to-audio pipeline.               *)
(*                                                                         *)
(* Threads of the program:                                                 *)
(*   - the GUI thread runs stop_reading, pause_resume_reading, load_pdf    *)
(*     and submits start_reading / pause / resume / stop_current_audio     *)
(*     coroutines to the background event loop;                            *)
(*   - the background asyncio event loop runs the start_reading            *)
(*     coroutines, main_async_reader_loop (the synthesis loop) and         *)
(*     AudioPlayer.run_audio_player_loop (the playback loop) as            *)
(*     cooperatively scheduled tasks: the code between two awaits that     *)
(*     suspend is one atomic step with respect to the other tasks;         *)
(*   - two single-thread executors run generate_audio_chunk and            *)
(*     AudioPlayer._play_blocking.                                         *)
(* Code of the event-loop thread is not atomic with respect to the GUI     *)
(* thread; start_reading is therefore split between its assignment to      *)
(* is_reading (line 673) and its reset of the control flags (675-676).     *)
(*                                                                         *)
(* asyncio.wait_for(audio_queue.get(), 0.1) runs the get in a task of its  *)
(* own (asyncio before 3.12): the unit leaves the queue when that task     *)
(* runs and the playback loop resumes in a later iteration of the event    *)
(* loop.  The position "got" of the playback loop is that interval; a run  *)
(* in which the playback loop takes its next step at once is the run of an *)
(* asyncio in which the get is inlined.                                    *)
(***************************************************************************)
EXTENDS Integers, Sequences, FiniteSets, TLC

\* ---- bounds of the model ----
\* number of start_reading coroutines submitted (sessions are numbered by them)
MaxStarts == 3
\* number of chunks the Chunker emits for the loaded document
NChunks == 3
\* number of stop / pause-resume / load requests issued from the GUI thread
MaxRequests == 2

\* ---- program constants ----
MAX_QUEUE_SIZE == 2

Sessions == 1..MaxStarts

NoUnit == [s |-> 0, k |-> 0]
Unit(s, k) == [s |-> s, k |-> k]

VARIABLES
    is_reading,         \* AutoReaderApp.is_reading
    is_reading_paused,  \* AutoReaderApp.is_reading_paused
    stop_reading_flag,  \* AutoReaderApp.stop_reading_flag
    audio_player,       \* AutoReaderApp.audio_player: 0 is None, else the player of that session
    audio_queue,        \* AutoReaderApp.audio_queue (asyncio.Queue, unbounded)
    pdf_doc,            \* AutoReaderApp.pdf_doc is not None
    starter,            \* the start_reading coroutines: how many were submitted, how many
                        \* are at each position, how many sessions they have begun
    reader,             \* each main_async_reader_loop task: position and chunk in hand
    player,             \* each AudioPlayer object and its run_audio_player_loop task
    pending,            \* coroutines submitted by run_coroutine_threadsafe, not yet run
    played,             \* history: units in the order their playback began, since the
                        \* latest session was marked Reading
    hist,               \* history: facts about past steps that the properties refer to
    nreq,               \* number of GUI requests issued so far
    highlighted,        \* the unit for which highlight_paragraph was invoked last, NoUnit
                        \* if for none since the latest session was marked Reading
    tts_resources_loaded, \* AutoReaderApp.tts_resources_loaded
    chunker,            \* extract_text_chunks_from_range: its arguments and local variables
    tts                 \* tts_utils: the module's globals, a load_tts_resources call and a
                        \* generate_audio_chunk call in progress

vars == <<is_reading, is_reading_paused, stop_reading_flag, audio_player, audio_queue,
          pdf_doc, starter, reader, player, pending, played, hist, nreq,
          highlighted, tts_resources_loaded, chunker, tts>>

appFlags == <<is_reading, is_reading_paused, stop_reading_flag>>

\* AudioPlayer.__init__
\* open_streams is the number of output streams that the player has opened
\* and that are not closed
NewPlayer == [pc |-> "top", is_paused |-> FALSE, is_stopped |-> FALSE,
              stream |-> FALSE, pyaudio_instance |-> FALSE, item |-> NoUnit,
              open_streams |-> 0]

NoPlayer == [pc |-> "none", is_paused |-> FALSE, is_stopped |-> FALSE,
             stream |-> FALSE, pyaudio_instance |-> FALSE, item |-> NoUnit,
             open_streams |-> 0]

\* quiet: stop_reading was called with is_reading true, and no request was
\*        made from the GUI thread since
\* stopPending: a stop was requested since is_reading last became true, and
\*              is_reading has not become false since
\* restopped: a stop_current_audio submitted by stop_reading has run on a player
\*            that was stopped already, since the latest session was marked Reading
\* waited: the session just marked Reading, whose reader has not run yet, was
\*         begun by a start_reading that had to wait for an old session
\* failed: a synthesis or the loading of the TTS resources has failed since
\*         the latest session was marked Reading
\* no Chunker of this record is running
NoChunker == [pc |-> "none"]

\* tts_utils.py lines 18-21: the globals are None (0); no call is in progress
NoTts == [F5TTS_model |-> 0, vocoder |-> 0, ref_audio_processed |-> 0,
          nload |-> 0, load |-> [pc |-> "none"], synth |-> [pc |-> "none"]]

NoHist == [quiet |-> FALSE, stopPending |-> FALSE, restopped |-> FALSE, waited |-> FALSE,
           failed |-> FALSE]

Init ==
    /\ is_reading = FALSE
    /\ is_reading_paused = FALSE
    /\ stop_reading_flag = FALSE
    /\ audio_player = 0
    /\ audio_queue = <<>>
    /\ pdf_doc \in BOOLEAN
    /\ starter = [clicked |-> 0, wait |-> 0, reset |-> FALSE, nsess |-> 0]
    /\ reader = [i \in Sessions |-> [pc |-> "none", k |-> 0]]
    /\ player = [i \in Sessions |-> NoPlayer]
    /\ pending = <<>>
    /\ played = <<>>
    /\ hist = NoHist
    /\ nreq = 0
    /\ highlighted = NoUnit
    /\ tts_resources_loaded = FALSE
    /\ chunker = NoChunker
    /\ tts = NoTts

\* ---------------------------------------------------------------------
\* AudioPlayer methods, as functions of the player object
\* ---------------------------------------------------------------------

\* stop_current_audio that releases the device and forgets to set is_stopped
stop_without_flag(pl) ==
    [pl EXCEPT !.is_paused = FALSE, !.stream = FALSE, !.pyaudio_instance = FALSE,
               !.open_streams = 0]

\* stop_current_audio that sets the flags and leaves the device open
stop_keeps_device(pl) == [pl EXCEPT !.is_stopped = TRUE, !.is_paused = FALSE]

\* AudioPlayer.stop_current_audio (runs under the player's lock): closing
\* self.stream and terminating the PyAudio instance closes the streams
stop_current_audio(pl) ==
    [pl EXCEPT !.is_stopped = TRUE, !.is_paused = FALSE,
               !.stream = FALSE, !.pyaudio_instance = FALSE, !.open_streams = 0]

\* AudioPlayer.pause (runs under the player's lock)
pause(pl) == [pl EXCEPT !.is_paused = TRUE]

\* AudioPlayer.resume (runs under the player's lock)
resume(pl) == IF pl.is_stopped THEN pl ELSE [pl EXCEPT !.is_paused = FALSE]

\* AudioPlayer._cleanup (runs under the player's lock)
cleanup_player(pl) ==
    [pl EXCEPT !.is_stopped = TRUE, !.is_paused = FALSE,
               !.stream = FALSE, !.pyaudio_instance = FALSE, !.open_streams = 0]

\* the player's asyncio.Lock is held across an await only by
\* play_audio_chunk_async: for the whole blocking write, and for ever once
\* its error handler awaits _cleanup, which waits for the same lock
LockFree(p) == player[p].pc \notin {"playing", "stuck"}

\* the event-loop thread is inside start_reading between lines 673 and 691
LoopFree == ~starter.reset

ReaderActive(i) == reader[i].pc \notin {"none", "done"}

\* ---------------------------------------------------------------------
\* GUI thread
\* ---------------------------------------------------------------------

\* stop_reading: set the flags, submit stop_current_audio for the current
\* player; the wait for its result is bounded by a timeout of 1 s
StopReading ==
    /\ nreq < MaxRequests
    /\ nreq' = nreq + 1
    /\ stop_reading_flag' = TRUE
    /\ is_reading_paused' = FALSE
    /\ pending' = IF audio_player # 0
                  THEN Append(pending, [op |-> "stop", p |-> audio_player])
                  ELSE pending
    /\ hist' = [hist EXCEPT !.quiet = is_reading,
                            !.stopPending = @ \/ is_reading]
    /\ UNCHANGED <<is_reading, audio_player, audio_queue, pdf_doc, starter, reader,
                   player, played>>
    /\ UNCHANGED <<highlighted, tts_resources_loaded, chunker, tts>>

\* pause_resume_reading: toggle the flag, submit pause or resume
PauseResume ==
    /\ nreq < MaxRequests
    /\ nreq' = nreq + 1
    /\ is_reading_paused' = ~is_reading_paused
    /\ pending' = IF audio_player # 0
                  THEN Append(pending, [op |-> IF is_reading_paused THEN "resume" ELSE "pause",
                                        p |-> audio_player])
                  ELSE pending
    /\ hist' = [hist EXCEPT !.quiet = FALSE]
    /\ UNCHANGED <<is_reading, stop_reading_flag, audio_player, audio_queue, pdf_doc,
                   starter, reader, player, played>>
    /\ UNCHANGED <<highlighted, tts_resources_loaded, chunker, tts>>

\* load_pdf: ends the reading by setting the stop flag, opens the document
load_pdf ==
    /\ nreq < MaxRequests
    /\ nreq' = nreq + 1
    /\ stop_reading_flag' = TRUE
    /\ pdf_doc' = TRUE
    /\ hist' = [hist EXCEPT !.quiet = FALSE, !.stopPending = @ \/ is_reading]
    /\ UNCHANGED <<is_reading, is_reading_paused, audio_player, audio_queue,
                   starter, reader, player, pending, played>>
    /\ UNCHANGED <<highlighted, tts_resources_loaded, chunker, tts>>

\* ---------------------------------------------------------------------
\* start_reading (event loop)
\* ---------------------------------------------------------------------

\* a start_reading that does not wait for the old session
StartNeverWaits(reading) == FALSE

\* line 665: whether start_reading goes on waiting for the old session
StartMustWait(reading) == reading

\* a start_reading that marks its session Reading without testing pdf_doc
StartProceedAnyway(st, h, hadToWait) ==
    /\ is_reading' = TRUE
    /\ starter' = [st EXCEPT !.reset = TRUE, !.nsess = @ + 1]
    /\ played' = <<>>
    /\ highlighted' = NoUnit
    /\ hist' = [h EXCEPT !.restopped = FALSE, !.waited = hadToWait, !.failed = FALSE]

\* lines 669-673, reached with is_reading false: return without a document,
\* else mark the session Reading; st is the starter record with the
\* coroutine already counted, h the history
StartProceed(st, h, hadToWait) ==
    IF pdf_doc
    THEN /\ is_reading' = TRUE
         /\ starter' = [st EXCEPT !.reset = TRUE, !.nsess = @ + 1]
         /\ played' = <<>>
         /\ highlighted' = NoUnit
         /\ hist' = [h EXCEPT !.restopped = FALSE, !.waited = hadToWait, !.failed = FALSE]
    ELSE /\ starter' = st
         /\ hist' = h
         /\ UNCHANGED <<is_reading, played, highlighted>>

\* on_start_reading_clicked and lines 661-673: a start_reading coroutine is
\* submitted from the GUI thread and the event loop runs it up to its wait
\* for the old session, or up to line 673
StartBegin ==
    /\ LoopFree
    /\ starter.clicked < MaxStarts
    /\ IF is_reading
       THEN /\ stop_reading_flag' = TRUE
            /\ starter' = [starter EXCEPT !.clicked = @ + 1, !.wait = @ + 1]
            /\ hist' = [hist EXCEPT !.quiet = FALSE, !.stopPending = TRUE]
            /\ UNCHANGED <<is_reading, played, highlighted>>
       ELSE /\ StartProceed([starter EXCEPT !.clicked = @ + 1],
                            [hist EXCEPT !.quiet = FALSE], FALSE)
            /\ UNCHANGED stop_reading_flag
    /\ UNCHANGED <<is_reading_paused, audio_player, audio_queue, pdf_doc, reader,
                   player, pending, nreq>>
    /\ UNCHANGED <<tts_resources_loaded, chunker, tts>>

\* lines 665-673: the polling wait for the old session ends
StartWait ==
    /\ LoopFree
    /\ starter.wait > 0
    /\ ~StartMustWait(is_reading)
    /\ StartProceed([starter EXCEPT !.wait = @ - 1], hist, TRUE)
    /\ UNCHANGED <<is_reading_paused, stop_reading_flag, audio_player, audio_queue,
                   pdf_doc, reader, player, pending, nreq>>
    /\ UNCHANGED <<tts_resources_loaded, chunker, tts>>

\* lines 675-691: reset the control flags, create the reader task of the
\* session just marked
StartReset ==
    /\ starter.reset
    /\ stop_reading_flag' = FALSE
    /\ is_reading_paused' = FALSE
    /\ reader' = [reader EXCEPT ![starter.nsess] = [pc |-> "init", k |-> 0]]
    /\ starter' = [starter EXCEPT !.reset = FALSE]
    /\ UNCHANGED <<is_reading, audio_player, audio_queue, pdf_doc, player, pending,
                   played, hist, nreq>>
    /\ UNCHANGED <<highlighted, tts_resources_loaded, chunker, tts>>

\* ---------------------------------------------------------------------
\* main_async_reader_loop (event loop): the synthesis loop of session i
\* ---------------------------------------------------------------------

\* a stopped player that is no longer the application's player leaves its
\* loop when its current wait of at most 0.1 s is over, which is before the
\* sleep of 0.1 s that ends cleanup_resources is over
OldPlayersGone ==
    \A p \in Sessions : p # audio_player => player[p].pc \in {"none", "dead"}

\* lines 723-740, entered with a chunk from the Chunker: where the loop
\* suspends next
AfterChunk(flag, paused, qsize) ==
    IF flag THEN "cleanup"
    ELSE IF paused THEN "pausewait"
    ELSE IF qsize >= MAX_QUEUE_SIZE THEN "capwait"
    ELSE "synth"

\* lines 698-740: the TTS resources are loaded, or reload_tts_resources
\* loads them (lines 700-702, tts_utils.py 71-93); create the player and
\* its loop, create the Chunker with the
\* current value of the stop flag (a bool, passed by value), take chunk 1.
\* A Chunker created with the value True raises on its first test of the
\* flag (a bool has no is_set), catches it and ends without a chunk.
ReaderInit(i) ==
    /\ LoopFree
    /\ reader[i].pc = "init"
    /\ IF audio_player = 0
       THEN /\ audio_player' = i
            /\ player' = [player EXCEPT ![i] = NewPlayer]
       ELSE UNCHANGED <<audio_player, player>>
    /\ reader' = [reader EXCEPT ![i] =
          IF stop_reading_flag \/ NChunks = 0
          THEN [pc |-> "cleanup", k |-> 0]
          ELSE [pc |-> AfterChunk(stop_reading_flag, is_reading_paused, Len(audio_queue)),
                k |-> 1]]
    /\ hist' = [hist EXCEPT !.waited = FALSE]
    /\ tts_resources_loaded' = TRUE
    /\ UNCHANGED <<is_reading, is_reading_paused, stop_reading_flag, audio_queue, pdf_doc,
                   starter, pending, played, nreq>>
    /\ UNCHANGED <<highlighted, chunker, tts>>

\* the condition of the wait for queue space (line 732)
CapWaitCond(qsize, flag) == qsize >= MAX_QUEUE_SIZE /\ ~flag

\* lines 727-740: the wait while paused ends
ReaderPauseWait(i) ==
    /\ LoopFree
    /\ reader[i].pc = "pausewait"
    /\ ~(is_reading_paused /\ ~stop_reading_flag)
    /\ reader' = [reader EXCEPT ![i].pc =
          IF CapWaitCond(Len(audio_queue), stop_reading_flag) THEN "capwait"
          ELSE IF stop_reading_flag THEN "cleanup"
          ELSE "synth"]
    /\ UNCHANGED <<is_reading, is_reading_paused, stop_reading_flag, audio_player,
                   audio_queue, pdf_doc, starter, player, pending, played, hist, nreq>>
    /\ UNCHANGED <<highlighted, tts_resources_loaded, chunker, tts>>

\* lines 732-740: the wait for queue space ends
ReaderCapWait(i) ==
    /\ LoopFree
    /\ reader[i].pc = "capwait"
    /\ ~CapWaitCond(Len(audio_queue), stop_reading_flag)
    /\ reader' = [reader EXCEPT ![i].pc =
          IF stop_reading_flag THEN "cleanup" ELSE "synth"]
    /\ UNCHANGED <<is_reading, is_reading_paused, stop_reading_flag, audio_player,
                   audio_queue, pdf_doc, starter, player, pending, played, hist, nreq>>
    /\ UNCHANGED <<highlighted, tts_resources_loaded, chunker, tts>>

\* line 752: whether the finished synthesis is put into the queue
EnqueueAllowed(flag) == TRUE

\* lines 744-753: generate_audio_chunk returns from the executor, the unit
\* is put into the queue
ReaderSynthDone(i) ==
    /\ LoopFree
    /\ reader[i].pc = "synth"
    /\ IF EnqueueAllowed(stop_reading_flag)
       THEN audio_queue' = Append(audio_queue, Unit(i, reader[i].k))
       ELSE UNCHANGED audio_queue
    /\ reader' = [reader EXCEPT ![i].pc = "next"]
    /\ UNCHANGED <<is_reading, is_reading_paused, stop_reading_flag, audio_player,
                   pdf_doc, starter, player, pending, played, hist, nreq>>
    /\ UNCHANGED <<highlighted, tts_resources_loaded, chunker, tts>>

\* a failed synthesis that puts its unit into the queue all the same
QueueAfterFailureKeeps(q, u) == Append(q, u)

\* lines 755-757: the queue after a synthesis that raised; nothing is put
QueueAfterFailure(q, u) == q

\* lines 744-749 and 755-757, tts_utils.py 98-127: generate_audio_chunk
\* raises in the executor; the exception is caught and the loop continues
\* with the next chunk
ReaderSynthFail(i) ==
    /\ LoopFree
    /\ reader[i].pc = "synth"
    /\ audio_queue' = QueueAfterFailure(audio_queue, Unit(i, reader[i].k))
    /\ reader' = [reader EXCEPT ![i].pc = "next"]
    /\ hist' = [hist EXCEPT !.failed = TRUE]
    /\ UNCHANGED <<is_reading, is_reading_paused, stop_reading_flag, audio_player,
                   pdf_doc, starter, player, pending, played, nreq>>
    /\ UNCHANGED <<highlighted, tts_resources_loaded, chunker, tts>>

\* lines 698-702 and 765-770, autoreader.py 430-450: the TTS resources are
\* not loaded and reload_tts_resources fails; the loop returns at once and
\* its finally clause runs
ReaderLoadFail(i) ==
    /\ LoopFree
    /\ reader[i].pc = "init"
    /\ ~tts_resources_loaded
    /\ is_reading' = FALSE
    /\ reader' = [reader EXCEPT ![i] = [pc |-> "done", k |-> 0]]
    /\ hist' = [hist EXCEPT !.stopPending = FALSE, !.waited = FALSE, !.failed = TRUE]
    /\ UNCHANGED <<is_reading_paused, stop_reading_flag, audio_player, audio_queue,
                   pdf_doc, starter, player, pending, played, nreq>>
    /\ UNCHANGED <<highlighted, tts_resources_loaded, chunker, tts>>

\* line 715 and pdf_utils.py 164-168: the Chunker resumes after its
\* sleep(0) and yields the next chunk, or is exhausted (line 760)
ReaderNext(i) ==
    /\ LoopFree
    /\ reader[i].pc = "next"
    /\ reader' = [reader EXCEPT ![i] =
          IF reader[i].k < NChunks
          THEN [pc |-> AfterChunk(stop_reading_flag, is_reading_paused, Len(audio_queue)),
                k |-> reader[i].k + 1]
          ELSE [pc |-> "cleanup", k |-> 0]]
    /\ UNCHANGED <<is_reading, is_reading_paused, stop_reading_flag, audio_player,
                   audio_queue, pdf_doc, starter, player, pending, played, hist, nreq>>
    /\ UNCHANGED <<highlighted, tts_resources_loaded, chunker, tts>>

\* cleanup_resources, lines 482-487: what is left of the queue
DrainQueue(q) == <<>>

\* cleanup_resources, lines 475-500: waits for the player's lock inside
\* stop_current_audio, then stops the player, empties the queue, forgets
\* the player and sets the flags, without suspending in between
cleanup_resources(i) ==
    /\ LoopFree
    /\ reader[i].pc = "cleanup"
    /\ IF audio_player # 0
       THEN /\ LockFree(audio_player)
            /\ player' = [player EXCEPT ![audio_player] = stop_current_audio(@)]
            /\ audio_queue' = DrainQueue(audio_queue)
            /\ audio_player' = 0
       ELSE UNCHANGED <<player, audio_queue, audio_player>>
    /\ stop_reading_flag' = TRUE
    /\ is_reading_paused' = FALSE
    /\ reader' = [reader EXCEPT ![i] = [pc |-> "final", k |-> 0]]
    /\ UNCHANGED <<is_reading, pdf_doc, starter, pending, played, hist, nreq>>
    /\ UNCHANGED <<highlighted, tts_resources_loaded, chunker, tts>>

\* lines 765-770: the finally clause, after the sleep of cleanup_resources
ReaderFinal(i) ==
    /\ LoopFree
    /\ reader[i].pc = "final"
    /\ OldPlayersGone
    /\ is_reading' = FALSE
    /\ reader' = [reader EXCEPT ![i].pc = "done"]
    /\ hist' = [hist EXCEPT !.stopPending = FALSE]
    /\ UNCHANGED <<is_reading_paused, stop_reading_flag, audio_player, audio_queue,
                   pdf_doc, starter, player, pending, played, nreq>>
    /\ UNCHANGED <<highlighted, tts_resources_loaded, chunker, tts>>

\* ---------------------------------------------------------------------
\* AudioPlayer.run_audio_player_loop (event loop): the playback loop of player p
\* ---------------------------------------------------------------------

\* a playback loop that does not test is_stopped
PlayerTopWithoutStopTest(p) ==
    /\ LoopFree
    /\ player[p].pc = "top"
    /\ ~player[p].is_paused
    /\ player' = [player EXCEPT ![p].pc = "get"]
    /\ UNCHANGED <<is_reading, is_reading_paused, stop_reading_flag, audio_player,
                   audio_queue, pdf_doc, starter, reader, pending, played, hist, nreq>>
    /\ UNCHANGED <<highlighted, tts_resources_loaded, chunker, tts>>

\* lines 98-111 and 152-154: leave the loop if stopped (and run _cleanup),
\* sleep if paused, else start a get with a timeout
PlayerTop(p) ==
    /\ LoopFree
    /\ player[p].pc = "top"
    /\ player[p].is_stopped \/ ~player[p].is_paused
    /\ player' = [player EXCEPT ![p] =
          IF player[p].is_stopped
          THEN [cleanup_player(player[p]) EXCEPT !.pc = "dead"]
          ELSE [player[p] EXCEPT !.pc = "get"]]
    /\ UNCHANGED <<is_reading, is_reading_paused, stop_reading_flag, audio_player,
                   audio_queue, pdf_doc, starter, reader, pending, played, hist, nreq>>
    /\ UNCHANGED <<highlighted, tts_resources_loaded, chunker, tts>>

\* line 111: the get takes the head of the queue
PlayerGet(p) ==
    /\ LoopFree
    /\ player[p].pc = "get"
    /\ audio_queue # <<>>
    /\ player' = [player EXCEPT ![p].pc = "got", ![p].item = Head(audio_queue)]
    /\ audio_queue' = Tail(audio_queue)
    /\ UNCHANGED <<is_reading, is_reading_paused, stop_reading_flag, audio_player,
                   pdf_doc, starter, reader, pending, played, hist, nreq>>
    /\ UNCHANGED <<highlighted, tts_resources_loaded, chunker, tts>>

\* lines 112-113: the get times out on an empty queue
PlayerTimeout(p) ==
    /\ LoopFree
    /\ player[p].pc = "get"
    /\ audio_queue = <<>>
    /\ player' = [player EXCEPT ![p].pc = "top"]
    /\ UNCHANGED <<is_reading, is_reading_paused, stop_reading_flag, audio_player,
                   audio_queue, pdf_doc, starter, reader, pending, played, hist, nreq>>
    /\ UNCHANGED <<highlighted, tts_resources_loaded, chunker, tts>>

\* line 136: audio_queue.put(item) of a unit that was not played
PutBack(q, item) == Append(q, item)

\* a re-check that looks at the stop flag only
MustPutBackIfStopped(pl) == pl.is_stopped

\* line 135: the re-check under the lock, after the highlight
MustPutBack(pl) == pl.is_paused \/ pl.is_stopped

\* lines 121-140 and 62-88: invoke highlight_paragraph (line 125), then
\* re-check the flags under the lock; put the unit back, or open the device
\* and start the blocking write.  self.stream is None or inactive here, so
\* line 75 opens a stream, and _play_blocking opens one more on a PyAudio
\* instance of its own (lines 54-55), which replaces the first in self.stream
PlayerGot(p) ==
    /\ LoopFree
    /\ player[p].pc = "got"
    /\ highlighted' = player[p].item
    /\ IF MustPutBack(player[p])
       THEN /\ audio_queue' = PutBack(audio_queue, player[p].item)
            /\ player' = [player EXCEPT ![p].pc = "top", ![p].item = NoUnit]
            /\ UNCHANGED played
       ELSE /\ player' = [player EXCEPT ![p].pc = "playing", ![p].stream = TRUE,
                                        ![p].pyaudio_instance = TRUE,
                                        ![p].open_streams = @ + 2]
            /\ played' = Append(played, player[p].item)
            /\ UNCHANGED audio_queue
    /\ UNCHANGED <<is_reading, is_reading_paused, stop_reading_flag, audio_player,
                   pdf_doc, starter, reader, pending, hist, nreq>>
    /\ UNCHANGED <<tts_resources_loaded, chunker, tts>>

\* lines 53-60 and 143: _play_blocking closes the stream it opened and
\* returns from the executor, the lock is released, the unit is marked done
PlayerPlayDone(p) ==
    /\ LoopFree
    /\ player[p].pc = "playing"
    /\ player' = [player EXCEPT ![p].pc = "top", ![p].stream = FALSE, ![p].item = NoUnit,
                                 ![p].open_streams = @ - 1]
    /\ UNCHANGED <<is_reading, is_reading_paused, stop_reading_flag, audio_player,
                   audio_queue, pdf_doc, starter, reader, pending, played, hist, nreq>>
    /\ UNCHANGED <<highlighted, tts_resources_loaded, chunker, tts>>

\* lines 82-92: _play_blocking raises in the executor.  The handler holds
\* the lock; unless paused it awaits _cleanup, which waits for the lock that
\* the handler holds (asyncio.Lock is not reentrant): the playback loop
\* never runs again and the lock is never released.
PlayerWriteError(p) ==
    /\ LoopFree
    /\ player[p].pc = "playing"
    /\ player' = [player EXCEPT ![p].pc = IF player[p].is_paused THEN "top" ELSE "stuck",
                                 ![p].item = NoUnit]
    /\ UNCHANGED <<is_reading, is_reading_paused, stop_reading_flag, audio_player,
                   audio_queue, pdf_doc, starter, reader, pending, played, hist, nreq>>
    /\ UNCHANGED <<highlighted, tts_resources_loaded, chunker, tts>>

\* ---------------------------------------------------------------------
\* coroutines submitted from the GUI thread (event loop)
\* ---------------------------------------------------------------------

ApplyOp(op, pl) ==
    IF op = "stop" THEN stop_current_audio(pl)
    ELSE IF op = "pause" THEN pause(pl)
    ELSE resume(pl)

\* the n-th submitted coroutine runs: it is the first one submitted for its
\* player, and the player's lock is free
RunPending(n) ==
    /\ LoopFree
    /\ n \in 1..Len(pending)
    /\ \A m \in 1..(n-1) : pending[m].p # pending[n].p
    /\ LockFree(pending[n].p)
    /\ player' = [player EXCEPT ![pending[n].p] = ApplyOp(pending[n].op, @)]
    /\ pending' = [m \in 1..(Len(pending)-1) |-> IF m < n THEN pending[m] ELSE pending[m+1]]
    /\ hist' = [hist EXCEPT !.restopped =
                   @ \/ (pending[n].op = "stop" /\ player[pending[n].p].is_stopped)]
    /\ UNCHANGED <<is_reading, is_reading_paused, stop_reading_flag, audio_player,
                   audio_queue, pdf_doc, starter, reader, played, nreq>>
    /\ UNCHANGED <<highlighted, tts_resources_loaded, chunker, tts>>

\* ---------------------------------------------------------------------

GuiStep == StopReading \/ PauseResume \/ load_pdf

\* a synthesis fails, the TTS resources fail to load
FaultStep == \E i \in Sessions : ReaderSynthFail(i) \/ ReaderLoadFail(i)

LoopStep ==
    \/ StartBegin \/ StartWait \/ StartReset
    \/ \E i \in Sessions : ReaderInit(i) \/ ReaderPauseWait(i) \/ ReaderCapWait(i)
                            \/ ReaderSynthDone(i) \/ ReaderNext(i)
                            \/ cleanup_resources(i) \/ ReaderFinal(i)
    \/ \E p \in Sessions : PlayerTop(p) \/ PlayerGet(p) \/ PlayerTimeout(p)
                            \/ PlayerGot(p) \/ PlayerPlayDone(p) \/ PlayerWriteError(p)
    \/ \E n \in 1..MaxRequests : RunPending(n)

Next == GuiStep \/ LoopStep \/ FaultStep

Spec == Init /\ [][Next]_vars

ReaderStep(i) ==
    \/ ReaderInit(i) \/ ReaderPauseWait(i) \/ ReaderCapWait(i) \/ ReaderSynthDone(i)
    \/ ReaderNext(i) \/ cleanup_resources(i) \/ ReaderFinal(i)
    \/ ReaderSynthFail(i) \/ ReaderLoadFail(i)

PlayerStep(p) ==
    \/ PlayerTop(p) \/ PlayerGet(p) \/ PlayerTimeout(p) \/ PlayerGot(p)
    \/ PlayerPlayDone(p) \/ PlayerWriteError(p)

\* The event loop runs every task that is ready, and the executors finish
\* every job; the requests of the GUI thread are under no obligation.
FairSpec ==
    /\ Spec
    /\ WF_vars(StartWait)
    /\ WF_vars(StartReset)
    /\ \A i \in Sessions : WF_vars(ReaderStep(i))
    /\ \A p \in Sessions : WF_vars(PlayerStep(p))
    /\ WF_vars(\E n \in 1..MaxRequests : RunPending(n))

\* One session: start_reading is submitted once, everything else as in Next.
StartOnce == starter.clicked = 0 /\ StartBegin

OneNext ==
    \/ StopReading \/ PauseResume \/ load_pdf
    \/ StartOnce \/ StartReset
    \/ \E i \in Sessions : ReaderStep(i)
    \/ \E p \in Sessions : PlayerStep(p)
    \/ \E n \in 1..MaxRequests : RunPending(n)

OneSpec == Init /\ [][OneNext]_vars

FairOneSpec ==
    /\ OneSpec
    /\ WF_vars(StartReset)
    /\ \A i \in Sessions : WF_vars(ReaderStep(i))
    /\ \A p \in Sessions : WF_vars(PlayerStep(p))
    /\ WF_vars(\E n \in 1..MaxRequests : RunPending(n))

\* pause_resume_reading is called at most twice: one pause and its resume
PauseThenResume == nreq < 2 /\ PauseResume

\* The user starts any number of times and pauses and resumes once: no
\* stop_reading, no load_pdf, no failure of the TTS.
StartsNext == PauseThenResume \/ LoopStep

StartsSpec == Init /\ [][StartsNext]_vars

\* ---------------------------------------------------------------------
\* extract_text_chunks_from_range (pdf_utils.py): the Chunker
\*
\* A text is a sequence of characters.  The characters outside ASCII are
\* written by their code point: "u3002" is the ideographic full stop,
\* "uFF01", "uFF1F" and "uFF1B" the fullwidth exclamation mark, question mark
\* and semicolon, "u3000" the ideographic space, "u96F6", "u4E00", ... the
\* Chinese numerals.
\* ---------------------------------------------------------------------

\* length of the longest document text
MaxDocLen == 4
\* largest chunk_length
MaxChunkLength == 2
\* length of the longest document text under FairShortDocSpec
MaxShortDocLen == 3

\* the number of load_tts_resources calls
MaxLoads == 2

\* the characters of the page texts: a letter, a line break, a digit, a full stop
Alphabet == {"a", "\n", "1", "u3002"}

\* line 111: the characters that punctuation_pattern matches
punctuation_pattern == {"u3002", "uFF01", "uFF1F", "uFF1B"}

\* lines 114-125, in the order of the dict
arabic_to_chinese ==
    << <<"0", "u96F6">>, <<"1", "u4E00">>, <<"2", "u4E8C">>, <<"3", "u4E09">>,
       <<"4", "u56DB">>, <<"5", "u4E94">>, <<"6", "u516D">>, <<"7", "u4E03">>,
       <<"8", "u516B">>, <<"9", "u4E5D">> >>

AsciiDigits == {"0", "1", "2", "3", "4", "5", "6", "7", "8", "9"}

\* the characters that str.strip removes and that \s matches, with U+3000
Whitespace == {" ", "\n", "\t", "\r", "u3000"}

\* a replace that replaces the first occurrence only
replace_first(text, old, new) ==
    [i \in 1..Len(text) |->
        IF text[i] = old /\ \A j \in 1..(i-1) : text[j] # old THEN new ELSE text[i]]

\* str.replace(old, new) for a single character old
replace(text, old, new) ==
    [i \in 1..Len(text) |-> IF text[i] = old THEN new ELSE text[i]]

\* lines 134-135: the loop over the items of arabic_to_chinese, from item n on
RECURSIVE ReplaceDigits(_, _)
ReplaceDigits(text, n) ==
    IF n > Len(arabic_to_chinese) THEN text
    ELSE ReplaceDigits(replace(text, arabic_to_chinese[n][1], arabic_to_chinese[n][2]), n + 1)

\* str.strip()
RECURSIVE strip(_)
strip(text) ==
    IF text = <<>> THEN text
    ELSE IF Head(text) \in Whitespace THEN strip(Tail(text))
    ELSE IF text[Len(text)] \in Whitespace THEN strip(SubSeq(text, 1, Len(text) - 1))
    ELSE text

\* re.sub(r"[\s\u3000]+", " ", text): every run of whitespace becomes one space
RECURSIVE CollapseWhitespace(_)
CollapseWhitespace(text) ==
    IF text = <<>> THEN text
    ELSE IF Head(text) \in Whitespace
         THEN IF Len(text) > 1 /\ text[2] \in Whitespace
              THEN CollapseWhitespace(Tail(text))
              ELSE <<" ">> \o CollapseWhitespace(Tail(text))
         ELSE <<Head(text)>> \o CollapseWhitespace(Tail(text))

\* tts_utils.py clean_text_for_tts
clean_text_for_tts(text) == strip(CollapseWhitespace(text))

\* a search that takes the last match at index pos or later
SearchEndLast(text_buffer, pos) ==
    LET hits == {i \in (pos + 1)..Len(text_buffer) : text_buffer[i] \in punctuation_pattern}
    IN IF hits = {} THEN 0 ELSE CHOOSE i \in hits : \A j \in hits : i >= j

\* lines 145-150: punctuation_pattern.search(text_buffer, pos) and match.end():
\* the number of characters up to and including the first match at index pos
\* (counted from 0) or later, 0 if there is no match
SearchEnd(text_buffer, pos) ==
    LET hits == {i \in (pos + 1)..Len(text_buffer) : text_buffer[i] \in punctuation_pattern}
    IN IF hits = {} THEN 0 ELSE CHOOSE i \in hits : \A j \in hits : i <= j

\* a chunk_data that numbers the chunk by its page
chunk_data_by_page(chunk_text, page_idx, paragraph_index) ==
    [text |-> strip(chunk_text),
     tts_text |-> clean_text_for_tts(strip(chunk_text)),
     page |-> page_idx + 1,
     paragraph |-> page_idx]

\* lines 156-163 and 180-186: the chunk_data built from chunk_text
chunk_data(chunk_text, page_idx, paragraph_index) ==
    [text |-> strip(chunk_text),
     tts_text |-> clean_text_for_tts(strip(chunk_text)),
     page |-> page_idx + 1,
     paragraph |-> paragraph_index]

\* the texts that page.get_text returns for the pages of a document whose
\* whole text is text and whose page breaks are after the characters cuts
PagesOf(text, cuts) ==
    LET marks == {0} \cup cuts \cup {Len(text)}
        Nth(k) == CHOOSE b \in marks : Cardinality({c \in marks : c < b}) = k
    IN [k \in 1..(Cardinality(marks) - 1) |-> SubSeq(text, Nth(k - 1) + 1, Nth(k))]

Documents == UNION {[1..n -> Alphabet] : n \in 0..MaxDocLen}

\* lines 106-108: the Chunker called for all pages of a document, with a stop
\* flag that is False
\* start_page and _end_page are the range of the session that calls it.
\* stop_reading_flag is the argument of that name: the value that the
\* application's flag, a bool, had at the call.  stopped_at is history: the
\* number of chunks yielded when a stop was requested, -1 if none was
NewChunker(pages, chunk_length) ==
    [pc |-> "page", pages |-> pages, end_page_0_indexed |-> Len(pages) - 1,
     chunk_length |-> chunk_length, current_page_idx |-> 0, text |-> <<>>,
     text_buffer |-> <<>>, paragraph_index |-> 0, yielded |-> <<>>,
     start_page |-> 0, _end_page |-> Len(pages) - 1,
     stop_reading_flag |-> FALSE, stopped_at |-> -1]

sessionVars == <<is_reading, is_reading_paused, stop_reading_flag, audio_player,
                 audio_queue, pdf_doc, starter, reader, player, pending, played, hist,
                 nreq, highlighted, tts_resources_loaded>>

\* the text of all pages, one after the other
RECURSIVE Join(_)
Join(texts) == IF texts = <<>> THEN <<>> ELSE Head(texts) \o Join(Tail(texts))

\* a document is loaded, no session was started, the Chunker is called
ChunkInit ==
    /\ is_reading = FALSE
    /\ is_reading_paused = FALSE
    /\ stop_reading_flag = FALSE
    /\ audio_player = 0
    /\ audio_queue = <<>>
    /\ pdf_doc = TRUE
    /\ starter = [clicked |-> 0, wait |-> 0, reset |-> FALSE, nsess |-> 0]
    /\ reader = [i \in Sessions |-> [pc |-> "none", k |-> 0]]
    /\ player = [i \in Sessions |-> NoPlayer]
    /\ pending = <<>>
    /\ played = <<>>
    /\ hist = NoHist
    /\ nreq = 0
    /\ highlighted = NoUnit
    /\ tts_resources_loaded = FALSE
    /\ tts = NoTts
    /\ \E text \in Documents :
          \E cuts \in SUBSET (1..(Len(text) - 1)) :
             \E chunk_length \in 1..MaxChunkLength :
                chunker = NewChunker(PagesOf(text, cuts), chunk_length)

\* lines 127-136: the test of the outer loop (the flag it was given is
\* False, so is_set is not evaluated); the page is loaded, its digits
\* are replaced, its text is appended to the buffer
ChunkerLoadPage ==
    /\ chunker.pc = "page"
    /\ chunker.current_page_idx <= chunker.end_page_0_indexed
    /\ ~chunker.stop_reading_flag
    /\ LET text == ReplaceDigits(chunker.pages[chunker.current_page_idx + 1], 1)
       IN chunker' = [chunker EXCEPT !.pc = "inner", !.text = text,
                                     !.text_buffer = @ \o text]
    /\ UNCHANGED <<sessionVars, tts>>

\* line 127: the outer loop ends, and with it the generator
ChunkerEnd ==
    /\ chunker.pc = "page"
    /\ chunker.current_page_idx > chunker.end_page_0_indexed
    /\ chunker' = [chunker EXCEPT !.pc = "done"]
    /\ UNCHANGED <<sessionVars, tts>>

\* lines 140-168: a punctuation mark is found at index chunk_length - 1 or
\* later; the buffer is cut behind it and the chunk is yielded unless it is
\* blank
ChunkerCut ==
    /\ chunker.pc = "inner"
    /\ Len(chunker.text_buffer) >= chunker.chunk_length
    /\ LET chunk_end_index == SearchEnd(chunker.text_buffer, chunker.chunk_length - 1)
           chunk_text == SubSeq(chunker.text_buffer, 1, chunk_end_index)
           rest == SubSeq(chunker.text_buffer, chunk_end_index + 1, Len(chunker.text_buffer))
       IN /\ chunk_end_index # 0
          /\ chunker' =
               IF strip(chunk_text) # <<>>
               THEN [chunker EXCEPT
                        !.text_buffer = rest,
                        !.yielded = Append(@, chunk_data(chunk_text, chunker.current_page_idx,
                                                         chunker.paragraph_index)),
                        !.paragraph_index = @ + 1]
               ELSE [chunker EXCEPT !.text_buffer = rest]
    /\ UNCHANGED <<sessionVars, tts>>

\* lines 170-191 and 196: no punctuation mark is found and the page is the
\* last one; the whole buffer is yielded unless it is blank
ChunkerFlush ==
    /\ chunker.pc = "inner"
    /\ Len(chunker.text_buffer) >= chunker.chunk_length
    /\ SearchEnd(chunker.text_buffer, chunker.chunk_length - 1) = 0
    /\ chunker.current_page_idx = chunker.end_page_0_indexed
    /\ chunker' =
         [chunker EXCEPT
            !.pc = "page",
            !.text_buffer = <<>>,
            !.yielded = IF strip(chunker.text_buffer) # <<>>
                        THEN Append(@, chunk_data(chunker.text_buffer, chunker.current_page_idx,
                                                  chunker.paragraph_index))
                        ELSE @,
            !.current_page_idx = @ + 1]
    /\ UNCHANGED <<sessionVars, tts>>

\* an outer loop that does not advance the page cursor
ChunkerNextPageSamePage ==
    /\ chunker.pc = "inner"
    /\ \/ Len(chunker.text_buffer) < chunker.chunk_length
       \/ /\ SearchEnd(chunker.text_buffer, chunker.chunk_length - 1) = 0
          /\ chunker.current_page_idx # chunker.end_page_0_indexed
    /\ chunker' = [chunker EXCEPT !.pc = "page"]
    /\ UNCHANGED <<sessionVars, tts>>

\* lines 140, 192-196: the buffer is shorter than chunk_length, or no
\* punctuation mark is found and more pages follow; on to the next page
ChunkerNextPage ==
    /\ chunker.pc = "inner"
    /\ \/ Len(chunker.text_buffer) < chunker.chunk_length
       \/ /\ SearchEnd(chunker.text_buffer, chunker.chunk_length - 1) = 0
          /\ chunker.current_page_idx # chunker.end_page_0_indexed
    /\ chunker' = [chunker EXCEPT !.pc = "page", !.current_page_idx = @ + 1]
    /\ UNCHANGED <<sessionVars, tts>>

ChunkNext == ChunkerLoadPage \/ ChunkerEnd \/ ChunkerCut \/ ChunkerFlush \/ ChunkerNextPage

ChunkSpec == ChunkInit /\ [][ChunkNext]_vars

\* a document is loaded, no session was started; start_reading is about to
\* be called with a page range (autoreader.py line 656): start_page is
\* current_page of lines 682-686, _end_page that of line 683
RangeInit ==
    /\ is_reading = FALSE
    /\ is_reading_paused = FALSE
    /\ stop_reading_flag = FALSE
    /\ audio_player = 0
    /\ audio_queue = <<>>
    /\ pdf_doc = TRUE
    /\ starter = [clicked |-> 0, wait |-> 0, reset |-> FALSE, nsess |-> 0]
    /\ reader = [i \in Sessions |-> [pc |-> "none", k |-> 0]]
    /\ player = [i \in Sessions |-> NoPlayer]
    /\ pending = <<>>
    /\ played = <<>>
    /\ hist = NoHist
    /\ nreq = 0
    /\ highlighted = NoUnit
    /\ tts_resources_loaded = FALSE
    /\ tts = NoTts
    /\ \E text \in Documents :
          \E cuts \in SUBSET (1..(Len(text) - 1)) :
             \E chunk_length \in 1..MaxChunkLength :
                LET pages == PagesOf(text, cuts)
                IN \E start_page \in 0..(Len(pages) - 1) :
                      \E end_page \in start_page..(Len(pages) - 1) :
                         chunker = [pc |-> "call", pages |-> pages,
                                    chunk_length |-> chunk_length,
                                    start_page |-> start_page, _end_page |-> end_page,
                                    stopped_at |-> -1]

\* autoreader.py lines 682-691 and 715-722: start_reading hands the range to
\* main_async_reader_loop, which calls the Chunker with start_page, with
\* the last page of the document and with the value of its stop flag
ReaderCallsChunker ==
    /\ chunker.pc = "call"
    /\ chunker' = [NewChunker(chunker.pages, chunker.chunk_length) EXCEPT
                      !.current_page_idx = chunker.start_page,
                      !.end_page_0_indexed = Len(chunker.pages) - 1,
                      !.start_page = chunker.start_page,
                      !._end_page = chunker._end_page,
                      !.stop_reading_flag = stop_reading_flag,
                      !.stopped_at = chunker.stopped_at]
    /\ UNCHANGED <<sessionVars, tts>>

RangeNext == ReaderCallsChunker \/ ChunkNext

RangeSpec == RangeInit /\ [][RangeNext]_vars

\* pdf_utils.py lines 129-131 and 198-201: load_page or get_text raises for
\* the page; the handler advances the page cursor and the outer loop goes on
ChunkerPageError ==
    /\ chunker.pc = "page"
    /\ chunker.current_page_idx <= chunker.end_page_0_indexed
    /\ ~chunker.stop_reading_flag
    /\ chunker' = [chunker EXCEPT !.current_page_idx = @ + 1]
    /\ UNCHANGED <<sessionVars, tts>>

PageErrorNext == ChunkerPageError \/ ChunkNext

PageErrorSpec == ChunkInit /\ [][PageErrorNext]_vars

\* the Chunker is called with a document of at most MaxShortDocLen characters
ShortDocInit == ChunkInit /\ Len(Join(chunker.pages)) <= MaxShortDocLen

ShortDocSpec == ShortDocInit /\ [][PageErrorNext]_vars

\* the generator is resumed as long as it has not returned: its consumer,
\* the async for of autoreader.py line 715, keeps pulling
FairShortDocSpec == ShortDocSpec /\ WF_vars(PageErrorNext)

\* pdf_utils.py lines 127 and 208-209: the Chunker was given the flag True;
\* the test of the outer loop calls is_set on a bool, the AttributeError is
\* caught by the outer handler and the generator ends
ChunkerRaise ==
    /\ chunker.pc = "page"
    /\ chunker.current_page_idx <= chunker.end_page_0_indexed
    /\ chunker.stop_reading_flag
    /\ chunker' = [chunker EXCEPT !.pc = "done"]
    /\ UNCHANGED <<sessionVars, tts>>

\* autoreader.py line 774 (stop_reading, GUI thread) or line 663
\* (start_reading): the application's stop flag is set during the session
StopRequest ==
    /\ ~stop_reading_flag
    /\ chunker.pc # "done"
    /\ stop_reading_flag' = TRUE
    /\ chunker' = [chunker EXCEPT !.stopped_at =
                       IF chunker.pc = "call" THEN 0 ELSE Len(chunker.yielded)]
    /\ UNCHANGED <<is_reading, is_reading_paused, audio_player, audio_queue, pdf_doc,
                   starter, reader, player, pending, played, hist, nreq, highlighted,
                   tts_resources_loaded, tts>>

\* autoreader.py lines 715-739: the loop resumes the Chunker for the next
\* chunk unless it has left at line 723 or 737; it tests its flag at line
\* 723 for every chunk it receives, so it has left once it has received a
\* chunk with the flag set
ConsumerPulls ==
    IF chunker.stopped_at = -1 \/ chunker.pc = "call"
    THEN TRUE
    ELSE Len(chunker.yielded) = chunker.stopped_at

CancelNext ==
    \/ StopRequest
    \/ ReaderCallsChunker
    \/ ConsumerPulls /\ ChunkerLoadPage
    \/ ConsumerPulls /\ ChunkerEnd
    \/ ConsumerPulls /\ ChunkerCut
    \/ ConsumerPulls /\ ChunkerFlush
    \/ ConsumerPulls /\ ChunkerNextPage
    \/ ConsumerPulls /\ ChunkerRaise

CancelSpec == RangeInit /\ [][CancelNext]_vars

\* ---------------------------------------------------------------------
\* tts_utils.py: the Speech Engine's resources
\*
\* The handles _F5TTS_model, _vocoder and _ref_audio_processed are module
\* globals.  A handle is written as the number of the load_tts_resources
\* call that produced it, 0 for None.  load_tts_resources runs on the
\* thread of its caller (the GUI thread for save_and_reload, autoreader.py
\* lines 452-455), generate_audio_chunk on the thread of the executor
\* (autoreader.py lines 744-749); the module takes no lock, so the reads
\* and writes of the globals interleave one by one.

\* the globals as a set of handles
Handles == <<tts.F5TTS_model, tts.vocoder, tts.ref_audio_processed>>

\* a readiness that does not ask for the reference voice
is_tts_ready_without_ref ==
    tts.F5TTS_model # 0 /\ tts.vocoder # 0

\* is_tts_ready, lines 95-96
is_tts_ready ==
    tts.F5TTS_model # 0 /\ tts.vocoder # 0 /\ tts.ref_audio_processed # 0

\* lines 71-74: load_tts_resources is called
TtsLoadCall ==
    /\ tts.load.pc \in {"none", "returned"}
    /\ tts.nload < MaxLoads
    /\ tts' = [tts EXCEPT !.nload = @ + 1,
                          !.load = [pc |-> "vocoder", before |-> Handles, result |-> FALSE]]
    /\ UNCHANGED <<sessionVars, chunker>>

\* line 76: the vocoder is loaded (None when _load_tts_vocoder_internal
\* caught an exception, lines 63-69) and assigned to the global
TtsLoadVocoder ==
    /\ tts.load.pc = "vocoder"
    /\ \E ok \in BOOLEAN :
          tts' = [tts EXCEPT !.vocoder = IF ok THEN tts.nload ELSE 0,
                             !.load.pc = "model"]
    /\ UNCHANGED <<sessionVars, chunker>>

\* line 77: the model is loaded (None on an exception, lines 53-61) and
\* assigned to the global
TtsLoadModel ==
    /\ tts.load.pc = "model"
    /\ \E ok \in BOOLEAN :
          tts' = [tts EXCEPT !.F5TTS_model = IF ok THEN tts.nload ELSE 0,
                             !.load.pc = "check"]
    /\ UNCHANGED <<sessionVars, chunker>>

\* lines 79-84 and 93: False is returned when a handle is None; the
\* reference voice is preprocessed when its path or text has changed or
\* when it is None; otherwise the readiness is returned
TtsLoadCheck ==
    /\ tts.load.pc = "check"
    /\ IF tts.vocoder = 0 \/ tts.F5TTS_model = 0
       THEN tts' = [tts EXCEPT !.load.pc = "returned", !.load.result = FALSE]
       ELSE \E changed \in BOOLEAN :
               IF changed \/ tts.ref_audio_processed = 0
               THEN tts' = [tts EXCEPT !.load.pc = "ref"]
               ELSE tts' = [tts EXCEPT !.load.pc = "returned",
                                       !.load.result = is_tts_ready]
    /\ UNCHANGED <<sessionVars, chunker>>

\* lines 85-93: the reference voice is preprocessed and assigned; on an
\* exception it is set to None and False is returned
TtsLoadRef ==
    /\ tts.load.pc = "ref"
    /\ \E ok \in BOOLEAN :
          tts' = [tts EXCEPT !.ref_audio_processed = IF ok THEN tts.nload ELSE 0,
                             !.load.pc = "returned",
                             !.load.result = ok /\ tts.F5TTS_model # 0 /\ tts.vocoder # 0]
    /\ UNCHANGED <<sessionVars, chunker>>

\* lines 98-105: generate_audio_chunk is called; RuntimeError when the
\* resources are not ready
TtsSynthCall ==
    /\ tts.synth.pc \in {"none", "returned", "raised"}
    /\ tts' = [tts EXCEPT !.synth = [pc |-> IF is_tts_ready THEN "refcheck" ELSE "raised",
                                     ref |-> 0, model |-> 0, vocoder |-> 0]]
    /\ UNCHANGED <<sessionVars, chunker>>

\* lines 108-109: ValueError when the reference voice is None
TtsSynthRefCheck ==
    /\ tts.synth.pc = "refcheck"
    /\ tts' = [tts EXCEPT !.synth.pc = IF tts.ref_audio_processed = 0
                                       THEN "raised" ELSE "ref"]
    /\ UNCHANGED <<sessionVars, chunker>>

\* line 112: the argument _ref_audio_processed is read
TtsSynthReadRef ==
    /\ tts.synth.pc = "ref"
    /\ tts' = [tts EXCEPT !.synth.ref = tts.ref_audio_processed, !.synth.pc = "model"]
    /\ UNCHANGED <<sessionVars, chunker>>

\* line 115: the argument _F5TTS_model is read
TtsSynthReadModel ==
    /\ tts.synth.pc = "model"
    /\ tts' = [tts EXCEPT !.synth.model = tts.F5TTS_model, !.synth.pc = "vocoder"]
    /\ UNCHANGED <<sessionVars, chunker>>

\* line 116: the argument _vocoder is read and infer_process is called
TtsSynthReadVocoder ==
    /\ tts.synth.pc = "vocoder"
    /\ tts' = [tts EXCEPT !.synth.vocoder = tts.vocoder, !.synth.pc = "infer"]
    /\ UNCHANGED <<sessionVars, chunker>>

\* lines 111-127: infer_process runs with the handles it was given; the
\* audio is returned, or the exception of a run with a None handle is raised
TtsSynthInfer ==
    /\ tts.synth.pc = "infer"
    /\ tts' = [tts EXCEPT !.synth.pc =
                  IF tts.synth.ref # 0 /\ tts.synth.model # 0 /\ tts.synth.vocoder # 0
                  THEN "returned" ELSE "raised"]
    /\ UNCHANGED <<sessionVars, chunker>>

TtsNext ==
    \/ TtsLoadCall \/ TtsLoadVocoder \/ TtsLoadModel \/ TtsLoadCheck \/ TtsLoadRef
    \/ TtsSynthCall \/ TtsSynthRefCheck \/ TtsSynthReadRef \/ TtsSynthReadModel
    \/ TtsSynthReadVocoder \/ TtsSynthInfer

TtsSpec == Init /\ [][TtsNext]_vars

\* ---------------------------------------------------------------------
\* Properties
\* ---------------------------------------------------------------------

\* the synthesis loop of session s enqueues its chunks in the order of their
\* index, and sessions are numbered in the order in which they begin
Before(u, v) == u.s < v.s \/ (u.s = v.s /\ u.k < v.k)

InOrder(q) == \A a, b \in 1..Len(q) : a < b => Before(q[a], q[b])

Range(q) == {q[a] : a \in 1..Len(q)}

\* C1: units are played in the order in which they were enqueued, under every
\* interleaving of the loops with pause, resume and stop requests.
C1_PlayedInEnqueueOrder == InOrder(played)

\* C2: the audio queue never holds more than MAX_QUEUE_SIZE units.
C2_QueueWithinCapacity == Len(audio_queue) <= MAX_QUEUE_SIZE

DeviceError == \E p \in Sessions : player[p].pc = "stuck"

\* C3: without a stop request and without an error (here: one start, no other
\* request, no failed device write, no failure of the TTS), when the session
\* is back to Idle every chunk the Chunker emitted has been played.
C3_AllChunksPlayed ==
    \A i \in Sessions :
        (reader[i].pc = "done" /\ nreq = 0 /\ starter.clicked = 1 /\ ~DeviceError
                               /\ ~hist.failed)
            => \A k \in 1..NChunks : Unit(i, k) \in Range(played)

PlayerRunning(p) == player[p].pc \notin {"none", "dead"} /\ ~player[p].is_stopped

\* C4: at any time at most one synthesis loop is running, at most one playback
\* loop that has not been stopped, and at most one player holds a device, which
\* is the application's player; when start_reading has returned with its
\* session launched, that session is Reading and is the only one active.
C4_SingleSession ==
    /\ Cardinality({i \in Sessions : ReaderActive(i)}) <= 1
    /\ Cardinality({p \in Sessions : PlayerRunning(p)}) <= 1
    /\ Cardinality({p \in Sessions : player[p].stream}) <= 1
    /\ \A p \in Sessions : PlayerRunning(p) \/ player[p].stream => p = audio_player
    /\ \A i \in Sessions :
          reader[i].pc = "init" =>
             /\ is_reading
             /\ i = starter.nsess
             /\ {j \in Sessions : ReaderActive(j)} = {i}

C4_Witness == hist.waited /\ \E i \in Sessions : reader[i].pc = "init"

\* C5: a start_reading that finds a session Reading marks its own session
\* only when the old one is Idle and torn down, and every start_reading that
\* waits for an old session does eventually begin its session (stated here
\* for the runs without a failed device write only).
C5_StartAfterIdle ==
    /\ [][starter'.nsess > starter.nsess =>
            /\ ~is_reading
            /\ audio_player = 0
            /\ \A i \in Sessions : ~ReaderActive(i)]_vars
    /\ (starter.wait > 0) ~> (starter.wait = 0 \/ DeviceError)

\* C6: after stop_reading was called during a session, and if no further
\* request follows, the system is eventually Idle.
C6_StopLeadsToIdle == hist.quiet ~> (~is_reading \/ ~hist.quiet)

C8_NoEnqueueAfterStop ==
    [][\A i \in Sessions :
          (ReaderSynthDone(i) /\ audio_queue' # audio_queue) => ~stop_reading_flag]_vars

\* C9: whenever the system is Idle (is_reading false) the audio queue is empty.
C9_IdleQueueEmpty == ~is_reading => audio_queue = <<>>

\* C10: a stop requested while a session is Reading stays recorded in the stop
\* flag until that session has reached Idle.
C10_StopSticky == hist.stopPending => stop_reading_flag

NoDup(q) == \A a, b \in 1..Len(q) : a # b => q[a] # q[b]

\* C11: a unit that the playback loop dequeued and did not play because the
\* player was paused goes back to the front of the queue, so that it is the
\* next unit played after resume; no unit is played twice.
C11_PauseResumeRoundTrip ==
    [][/\ NoDup(played')
       /\ \A p \in Sessions :
             (PlayerGot(p) /\ player[p].is_paused /\ ~player[p].is_stopped) =>
                audio_queue' = <<player[p].item>> \o audio_queue]_vars

\* C12: highlight_paragraph is invoked for a unit before the playback of that
\* unit begins, and it is never invoked for a unit after it was invoked for a
\* later unit.
C12_HighlightOrder ==
    [][\A p \in Sessions :
          PlayerGot(p) =>
             /\ ~Before(highlighted', highlighted)
             /\ (played' # played) => highlighted' = played'[Len(played')]]_vars

\* C13: highlight_paragraph is invoked exactly when the playback of a unit
\* begins, for that unit: not for a unit that is put back, and not for a unit
\* that was played already.
C13_HighlightOncePerPlayed ==
    [][\A p \in Sessions :
          PlayerGot(p) =>
             /\ played' = Append(played, highlighted')
             /\ highlighted' \notin Range(played)]_vars

\* the texts of a sequence of texts, one after the other
WithoutWhitespace(text) == SelectSeq(text, LAMBDA c : c \notin Whitespace)

YieldedTexts == [n \in 1..Len(chunker.yielded) |-> chunker.yielded[n].text]

\* C14: when the Chunker has finished, the texts of the chunks it yielded,
\* one after the other, are the text of all pages with the digits replaced,
\* whitespace aside.
C14_ChunksCoverDocument ==
    chunker.pc = "done" =>
        WithoutWhitespace(Join(YieldedTexts))
            = WithoutWhitespace(ReplaceDigits(Join(chunker.pages), 1))

\* C15: every chunk yielded before another one ends with a punctuation mark
\* of punctuation_pattern, which sits at index chunk_length - 1 or later of
\* the text of the chunk.
C15_CutAtPunctuation ==
    chunker.pc # "none" =>
        \A n \in 1..(Len(chunker.yielded) - 1) :
            LET text == chunker.yielded[n].text
            IN /\ text[Len(text)] \in punctuation_pattern
               /\ Len(text) - 1 >= chunker.chunk_length - 1

NoAsciiDigit(text) == \A i \in 1..Len(text) : text[i] \notin AsciiDigits

ChineseDigit(c) ==
    arabic_to_chinese[CHOOSE n \in 1..Len(arabic_to_chinese) : arabic_to_chinese[n][1] = c][2]

\* C16: no text and no tts_text of a yielded chunk contains an ASCII digit,
\* and the text of a page after the replacement has the length of the page
\* text, the Chinese numeral of the digit wherever the page text has a digit
\* and the character of the page text everywhere else.
C16_DigitsLocalized ==
    chunker.pc # "none" =>
        /\ \A n \in 1..Len(chunker.yielded) :
              /\ NoAsciiDigit(chunker.yielded[n].text)
              /\ NoAsciiDigit(chunker.yielded[n].tts_text)
        /\ chunker.pc = "inner" =>
              LET source == chunker.pages[chunker.current_page_idx + 1]
              IN /\ Len(chunker.text) = Len(source)
                 /\ \A i \in 1..Len(source) :
                       chunker.text[i] = IF source[i] \in AsciiDigits
                                         THEN ChineseDigit(source[i])
                                         ELSE source[i]

C16_Witness ==
    /\ chunker.pc = "done"
    /\ \E k \in 1..Len(chunker.pages) : \E i \in 1..Len(chunker.pages[k]) :
          chunker.pages[k][i] = "1"
    /\ \E n \in 1..Len(chunker.yielded) : \E i \in 1..Len(chunker.yielded[n].text) :
          chunker.yielded[n].text[i] = "u4E00"

\* C17: when a device write fails, the player ends stopped with its stream
\* and its PyAudio instance released, its playback loop is not left inside
\* play_audio_chunk_async, and its lock is free, so that a pause, resume or
\* stop_current_audio submitted afterwards can run.
C17_WriteErrorStopsPlayer ==
    [][\A p \in Sessions :
          PlayerWriteError(p) =>
             /\ player'[p].is_stopped
             /\ ~player'[p].stream /\ ~player'[p].pyaudio_instance
             /\ player'[p].pc \notin {"playing", "stuck"}]_vars

\* C18: after a failed device write the session is eventually Idle, without
\* a call of stop_reading (stated for the runs in which the GUI thread makes
\* no request at all).
C18_DeviceErrorLeadsToIdle == (DeviceError /\ nreq = 0) ~> (~is_reading \/ nreq > 0)

\* the units of session i that are in the queue, were played or are in the
\* hand of a playback loop
UnitsOut(i) ==
    {u \in Range(audio_queue) \cup Range(played) \cup {player[p].item : p \in Sessions} :
        u.s = i}

\* C19: a synthesis that fails puts nothing into the queue, leaves the
\* session Reading and the synthesis loop at the point where it takes the
\* next chunk; the Chunker then yields the chunk that follows the failed one;
\* a synthesis that succeeds puts its unit at the back of the queue, and that
\* unit is later in the order of emission than every unit of the session
\* enqueued before.
C19_SynthFailureSkipsChunk ==
    [][\A i \in Sessions :
          /\ ReaderSynthFail(i) =>
                /\ audio_queue' = audio_queue
                /\ is_reading /\ is_reading'
                /\ reader'[i] = [pc |-> "next", k |-> reader[i].k]
          /\ (ReaderNext(i) /\ reader[i].k < NChunks) =>
                reader'[i].k = reader[i].k + 1
          /\ ReaderSynthDone(i) =>
                /\ audio_queue' = Append(audio_queue, Unit(i, reader[i].k))
                /\ \A u \in UnitsOut(i) : u.k < reader[i].k]_vars

\* no request was made; unit 2 of session 1 is in the queue and unit 1 is
\* nowhere: its synthesis failed
C19_Witness ==
    /\ nreq = 0
    /\ is_reading
    /\ Unit(1, 2) \in Range(audio_queue)
    /\ Unit(1, 1) \notin UnitsOut(1)

\* C20: when the TTS resources fail to load at the start of a session,
\* is_reading is not true for that session, no player is created and no
\* chunk is taken for synthesis.
C20_LoadFailureNeverReading ==
    [][\A i \in Sessions :
          ReaderLoadFail(i) =>
             /\ ~is_reading
             /\ player[i].pc = "none" /\ player'[i].pc = "none"
             /\ reader'[i].k = 0]_vars

\* C21: as long as no document is loaded, start_reading marks no session
\* Reading and creates no synthesis loop and no player: the system is Idle.
C21_NoDocumentNoSession ==
    ~pdf_doc =>
        /\ ~is_reading
        /\ starter.nsess = 0 /\ ~starter.reset
        /\ audio_player = 0
        /\ \A i \in Sessions : reader[i].pc = "none" /\ player[i].pc = "none"

\* start_reading has run and returned without a document
C21_Witness == ~pdf_doc /\ starter.clicked > 0 /\ starter.wait = 0

SameGeneration ==
    tts.synth.pc = "infer" =>
        /\ tts.synth.model = tts.synth.vocoder
        /\ tts.synth.model # 0 /\ tts.synth.ref # 0

FailedLoadRestores ==
    (tts.load.pc = "returned" /\ ~tts.load.result) => Handles = tts.load.before

C23_ReloadAtomic == SameGeneration /\ FailedLoadRestores

\* C24: a session started with a page range reads only that range: every
\* chunk the Chunker yields for the session is tagged with a page (counted
\* from 1) of start_page.._end_page (counted from 0)
C24_OnlyRequestedRange ==
    chunker.pc \notin {"none", "call"} =>
        \A n \in 1..Len(chunker.yielded) :
            /\ chunker.yielded[n].page >= chunker.start_page + 1
            /\ chunker.yielded[n].page <= chunker._end_page + 1

\* C25: whenever the reader loop exits (is_reading becomes false), the
\* cleanup has run: every player that was created is stopped, the queue is
\* empty and the paused flag is cleared
CleanedUp ==
    /\ \A p \in Sessions : player[p].pc # "none" => player[p].is_stopped
    /\ audio_queue = <<>>
    /\ ~is_reading_paused

C25_CleanupBeforeIdle == [][(is_reading /\ ~is_reading') => CleanedUp']_vars

\* stop_reading was called in the running session and the player of
\* session p is stopped, with no stop_current_audio for it still to run
StopHasRun(p) ==
    /\ hist.stopPending
    /\ stop_reading_flag
    /\ player[p].is_stopped
    /\ \A n \in 1..Len(pending) : ~(pending[n].op = "stop" /\ pending[n].p = p)

\* C26: once stop_reading has set the stop flag and the player is stopped,
\* no step invokes highlight_paragraph for a chunk of that session
C26_NoHighlightAfterStop ==
    [][\A p \in Sessions :
          StopHasRun(p) => (highlighted' = highlighted \/ highlighted'.s # p)]_vars

\* C27: the player's lock is never held while a blocking device write is in
\* progress, so that a pause or stop coroutine submitted during the write
\* of a unit can run before the write has finished
C27_LockFreeDuringWrite ==
    \A p \in Sessions :
        player[p].pc = "playing" =>
            /\ LockFree(p)
            /\ \A n \in 1..Len(pending) :
                  (/\ pending[n].p = p
                   /\ \A m \in 1..(n-1) : pending[m].p # p
                   /\ LoopFree) => ENABLED RunPending(n)

\* C28: at any time at most one output stream of a player is open
C28_OneOpenStream == \A p \in Sessions : player[p].open_streams <= 1

\* C29: the synthesis loop takes a chunk from the Chunker only in a step in
\* which the paused flag is clear and the queue is below its capacity
C29_NoPullWhileBlocked ==
    [][\A i \in Sessions :
          reader'[i].k > reader[i].k =>
              (~is_reading_paused /\ Len(audio_queue) < MAX_QUEUE_SIZE)]_vars

\* C30: while a player's paused flag is set no unit is being written to the
\* device, and no step starts a write or records a unit as played for it:
\* the unit in hand is put back into the queue
C30_NoPlayWhilePaused ==
    /\ [](\A p \in Sessions : player[p].is_paused => player[p].pc # "playing")
    /\ [][\A p \in Sessions :
             player[p].is_paused =>
                /\ player'[p].pc = "playing" => player[p].pc = "playing"
                /\ PlayerGot(p) => (played' = played /\ Len(audio_queue') = Len(audio_queue) + 1)
                /\ player'[p].open_streams <= player[p].open_streams]_vars

\* a pause has taken effect on a player that had a unit in hand, the unit
\* was put back and is not played, the player is still paused
C30_Witness ==
    \E p \in Sessions :
        /\ player[p].is_paused /\ ~player[p].is_stopped
        /\ player[p].pc = "top"
        /\ highlighted.s = p
        /\ \A n \in 1..Len(played) : played[n] # highlighted
        /\ \E n \in 1..Len(audio_queue) : audio_queue[n] = highlighted

\* C31: once a stop was requested during a session, the Chunker loads no
\* further page and yields no further chunk
C31_NoChunkAfterCancel ==
    [][(stop_reading_flag /\ chunker.pc \notin {"call", "done"}) =>
          /\ chunker'.yielded = chunker.yielded
          /\ ~ChunkerLoadPage]_vars

\* C32: when the Chunker has finished, nothing but whitespace is left in its
\* buffer: what remained after the last cut on the last page, whatever its
\* length, was yielded as the final chunk
C32_FinalFlush ==
    chunker.pc = "done" => strip(chunker.text_buffer) = <<>>

\* C33: a cut removes from the front of the buffer the shortest prefix that
\* ends with a punctuation mark at offset chunk_length - 1 or later, and
\* yields it (trimmed) unless it is blank; the rest stays in the buffer, the
\* text of the next page is appended behind it, and going on to the next
\* page leaves the buffer as it is
C33_ShortestPrefixCut ==
    [][LET b == chunker.text_buffer
           e == Len(b) - Len(chunker'.text_buffer)
       IN /\ ChunkerCut =>
                /\ e >= chunker.chunk_length /\ e <= Len(b)
                /\ b[e] \in punctuation_pattern
                /\ \A j \in chunker.chunk_length..(e - 1) : b[j] \notin punctuation_pattern
                /\ chunker'.text_buffer = SubSeq(b, e + 1, Len(b))
                /\ Len(chunker'.yielded) > Len(chunker.yielded) =>
                      chunker'.yielded[Len(chunker'.yielded)].text = strip(SubSeq(b, 1, e))
          /\ ChunkerLoadPage =>
                /\ Len(chunker'.text_buffer) >= Len(b)
                /\ SubSeq(chunker'.text_buffer, 1, Len(b)) = b
          /\ ChunkerNextPage => chunker'.text_buffer = b]_vars

\* a cut has left a remainder that was carried over to the next page: the
\* buffer holds it in front of the text of the page just loaded
C33_Witness ==
    /\ chunker.pc = "inner"
    /\ chunker.current_page_idx >= 1
    /\ Len(chunker.yielded) >= 1
    /\ Len(chunker.text_buffer) > Len(chunker.text)

\* C34: a page whose text cannot be extracted is skipped and nothing else:
\* the page cursor advances by one, the buffer and the chunks yielded so far
\* are as before and the Chunker goes on; the text that was buffered is not
\* lost: when the Chunker has finished, the buffer holds less than
\* chunk_length characters (the rest that it leaves behind without any error)
C34_PageErrorSkipsPage ==
    /\ [][ChunkerPageError =>
             /\ chunker'.current_page_idx = chunker.current_page_idx + 1
             /\ chunker'.text_buffer = chunker.text_buffer
             /\ chunker'.yielded = chunker.yielded
             /\ chunker'.pc = "page"]_vars
    /\ [](chunker.pc = "done" => Len(chunker.text_buffer) < chunker.chunk_length)

\* C35: the paragraph indices of the chunks yielded in one call are 0, 1,
\* 2, ... in the order of the yields, and while a page is being cut the
\* index of the next chunk is the number of chunks yielded so far
C35_ParagraphIndices ==
    chunker.pc \notin {"none", "call"} =>
        /\ \A n \in 1..Len(chunker.yielded) : chunker.yielded[n].paragraph = n - 1
        /\ chunker.pc = "inner" => chunker.paragraph_index = Len(chunker.yielded)

\* two chunks were yielded and the rest of the last page, a line break
\* behind a punctuation mark, was flushed without a chunk
C35_Witness ==
    /\ chunker.pc = "done"
    /\ Len(chunker.yielded) = 2
    /\ chunker.text_buffer = <<>>
    /\ Len(chunker.text) >= 2
    /\ chunker.text[Len(chunker.text)] \in Whitespace
    /\ chunker.text[Len(chunker.text) - 1] \in punctuation_pattern

\* C36: the generator returns for every document and every chunk_length of
\* at least 1: every cut shortens the buffer by at least chunk_length
\* characters and every pass of the outer loop, a failed page load
\* included, moves current_page_idx on by one
C36_ChunkerTerminates ==
    /\ <>(chunker.pc = "done")
    /\ [][ChunkerCut =>
            Len(chunker'.text_buffer) + chunker.chunk_length <= Len(chunker.text_buffer)]_vars
    /\ [][(chunker'.pc = "page" /\ chunker' # chunker) =>
            chunker'.current_page_idx = chunker.current_page_idx + 1]_vars

\* the generator has returned after two pages and two chunks
C36_Witness ==
    /\ chunker.pc = "done"
    /\ chunker.chunk_length >= 1
    /\ Len(chunker.pages) >= 2
    /\ chunker.current_page_idx = Len(chunker.pages)
    /\ Len(chunker.yielded) >= 2

\* C37: a session that was started ends by itself when the GUI thread makes
\* no request and no device write fails: the synthesis loop leaves its
\* async for only when the Chunker is exhausted, and in the end no loop of
\* the session is left running, the player is released, is_reading and
\* is_reading_paused are False
C37_SessionTerminates ==
    /\ (is_reading /\ nreq = 0 /\ ~DeviceError)
          ~> \/ /\ ~is_reading
                /\ ~is_reading_paused
                /\ audio_player = 0
                /\ \A i \in Sessions : ~ReaderActive(i)
                /\ \A p \in Sessions : player[p].pc \in {"none", "dead"}
             \/ nreq > 0
             \/ DeviceError
    /\ [][\A i \in Sessions :
            (reader[i].pc # "cleanup" /\ reader'[i].pc = "cleanup" /\ nreq = 0) =>
                reader[i].pc = "next" /\ reader[i].k = NChunks]_vars

\* the session read to the end of the document and is over: something was
\* played, its loops are gone, no request was made
C37_Witness ==
    /\ nreq = 0
    /\ ~DeviceError
    /\ ~hist.failed
    /\ ~is_reading
    /\ played # <<>>
    /\ \E i \in Sessions : reader[i].pc = "done" /\ player[i].pc = "dead"

\* C38: load_tts_resources returns True exactly when is_tts_ready is true
\* at its return, and a generate_audio_chunk that is called while
\* is_tts_ready is false raises at once: it reads no handle for the
\* inference and changes none of the globals
C38_LoadResultIsReadiness ==
    /\ [][(tts.load.pc # "returned" /\ tts'.load.pc = "returned") =>
            (tts'.load.result <=> is_tts_ready')]_vars
    /\ [][(TtsSynthCall /\ ~is_tts_ready) =>
            /\ tts'.synth = [pc |-> "raised", ref |-> 0, model |-> 0, vocoder |-> 0]
            /\ Handles' = Handles
            /\ tts'.load = tts.load]_vars

\* the first load succeeded, the second one failed and returned False, and
\* a generate_audio_chunk has raised
C38_Witness ==
    /\ tts.nload = 2
    /\ tts.load.pc = "returned"
    /\ ~tts.load.result
    /\ tts.ref_audio_processed = 1
    /\ ~is_tts_ready
    /\ tts.synth = [pc |-> "raised", ref |-> 0, model |-> 0, vocoder |-> 0]

====
